---- MODULE Spec2Model ----
(***************************************************************************)
(* A model of the identicon package (hambletor/identicon): the Icon        *)
(* constructor New with its functional options, the pattern generator      *)
(* createPatternGrid, the renderer drawPattern, the colour conversion      *)
(* colorToHSL / hslToRGB and the file output saveFile.                     *)
(*                                                                         *)
(* Go slices are zero-based; TLA+ sequences are one-based.  Every index of *)
(* the source is kept zero-based here and shifted by one only where a      *)
(* sequence is read or written (At0, Set0).                                *)
(***************************************************************************)
EXTENDS Integers, Sequences, FiniteSets, TLC

VARIABLES icon, ret, ran, fs, handles, data, probe, conv

vars == <<icon, ret, ran, fs, handles, data, probe, conv>>

(***************************************************************************)
(* Program constants (identicon.go, const block).                          *)
(***************************************************************************)
defaultPixels == 250
MinPixels == 100
MaxPixels == 500
defaultSize == 5
MinSize == 5
MaxSize == 20

(***************************************************************************)
(* Zero-based access to sequences.                                         *)
(***************************************************************************)
At0(s, k) == s[k + 1]
Set0(s, k, v) == [s EXCEPT ![k + 1] = v]
\* s[lo:hi] of Go
Slice0(s, lo, hi) == [k \in 1..(hi - lo) |-> s[lo + k]]

(***************************************************************************)
(* Colours.  A colour is its 8-bit R, G, B, A channels; NilColor is the    *)
(* nil color.Color.  color.White is Gray16{0xffff}, whose RGBA() is that   *)
(* of the opaque white below.                                              *)
(***************************************************************************)
NilColor == [nil |-> TRUE]
RGBA(r, g, b, a) == [R |-> r, G |-> g, B |-> b, A |-> a]
White == RGBA(255, 255, 255, 255)
Black == RGBA(0, 0, 0, 255)

(***************************************************************************)
(* float64 arithmetic of color.go, modelled by exact fractions [n, d] in    *)
(* lowest terms with d > 0.  d = 0 marks the non-finite values: n > 0 is    *)
(* +Inf, n < 0 is -Inf, n = 0 is NaN.  The values color.go computes for     *)
(* 8-bit channels are ratios of small integers; the rounding of IEEE        *)
(* doubles is not modelled.                                                 *)
(***************************************************************************)
Abs(x) == IF x < 0 THEN -x ELSE x
Sign(x) == IF x < 0 THEN -1 ELSE IF x > 0 THEN 1 ELSE 0

RECURSIVE GCD(_, _)
GCD(a, b) == IF b = 0 THEN a ELSE GCD(b, a % b)

Frac(n, d) ==
    IF d = 0 THEN [n |-> Sign(n), d |-> 0]
    ELSE LET g == GCD(Abs(n), Abs(d))
         IN  [n |-> (Sign(d) * n) \div g, d |-> Abs(d) \div g]

FInt(k) == [n |-> k, d |-> 1]
FNaN == [n |-> 0, d |-> 0]
IsNaN(a) == a.d = 0 /\ a.n = 0
IsFinite(a) == a.d # 0

FNeg(a) == [n |-> -a.n, d |-> a.d]
FAbs(a) == [n |-> Abs(a.n), d |-> a.d]

FAdd(a, b) ==
    IF IsFinite(a) /\ IsFinite(b)
    THEN LET l == (a.d \div GCD(a.d, b.d)) * b.d
         IN  Frac((a.n * (l \div a.d)) + (b.n * (l \div b.d)), l)
    ELSE IF IsNaN(a) \/ IsNaN(b) THEN FNaN
    ELSE IF ~IsFinite(a) /\ ~IsFinite(b) /\ a.n # b.n THEN FNaN
    ELSE IF ~IsFinite(a) THEN a ELSE b

FSub(a, b) == FAdd(a, FNeg(b))

FMul(a, b) ==
    IF IsFinite(a) /\ IsFinite(b) THEN Frac(a.n * b.n, a.d * b.d)
    ELSE IF IsNaN(a) \/ IsNaN(b) \/ a.n = 0 \/ b.n = 0 THEN FNaN
    ELSE [n |-> Sign(a.n) * Sign(b.n), d |-> 0]

\* x / y of float64: a finite x over zero is an infinity, 0/0 is NaN
FDiv(a, b) ==
    IF IsFinite(a) /\ IsFinite(b)
    THEN (IF b.n = 0 THEN [n |-> Sign(a.n), d |-> 0] ELSE Frac(a.n * b.d, a.d * b.n))
    ELSE IF IsNaN(a) \/ IsNaN(b) \/ (~IsFinite(a) /\ ~IsFinite(b)) THEN FNaN
    ELSE IF ~IsFinite(a) THEN [n |-> Sign(a.n) * (IF b.n < 0 THEN -1 ELSE 1), d |-> 0]
    ELSE FInt(0)

\* comparisons of float64: every comparison with NaN is false
FLess(a, b) ==
    IF IsFinite(a) /\ IsFinite(b) THEN a.n * b.d < b.n * a.d
    ELSE IF IsNaN(a) \/ IsNaN(b) THEN FALSE
    ELSE IF ~IsFinite(a) THEN a.n < 0 /\ (IsFinite(b) \/ b.n > 0)
    ELSE b.n > 0
FLeq(a, b) == FLess(a, b) \/ (~IsNaN(a) /\ ~IsNaN(b) /\ a = b)

FMin(a, b) == IF FLess(b, a) THEN b ELSE a
FMax(a, b) == IF FLess(a, b) THEN b ELSE a

\* math.Mod(x, k) for a finite x and an integer k > 0: the sign of x is kept
FMod(a, k) ==
    IF ~IsFinite(a) THEN FNaN
    ELSE Frac(Sign(a.n) * (Abs(a.n) % (k * a.d)), a.d)

\* What a build makes of uint8(f) when f is out of the range of uint8 or NaN:
\* the Go specification leaves the value to the implementation.
Conversions == {"wrap", "saturate", "zero"}

\* uint8(f): truncation towards zero
toUint8(f, ub) ==
    IF IsFinite(f) /\ Sign(f.n) * (Abs(f.n) \div f.d) \in 0..255
    THEN Sign(f.n) * (Abs(f.n) \div f.d)
    ELSE IF ub = "wrap"
         THEN (IF IsFinite(f) THEN (Sign(f.n) * (Abs(f.n) \div f.d)) % 256 ELSE 0)
    ELSE IF ub = "saturate"
         THEN (IF f.n > 0 THEN 255 ELSE 0)
    ELSE 0

(***************************************************************************)
(* color.go                                                                *)
(***************************************************************************)
\* c.RGBA() of an opaque color.RGBA: each 8-bit channel v as v<<8 | v
rgba16(v) == v * 257

\* float64(red/255) / float64(255.0): the first division is of uint32
normalize(v16) == Frac(v16 \div 255, 255)

colorToHSL(c) ==
    LET r == normalize(rgba16(c.R))
        g == normalize(rgba16(c.G))
        b == normalize(rgba16(c.B))
        min == FMin(FMin(r, g), b)
        max == FMax(FMax(r, g), b)
        delta == FSub(max, min)
        L == FDiv(FAdd(min, max), FInt(2))
        S == IF delta # FInt(0)
             THEN FDiv(delta, FSub(FInt(1), FAbs(FSub(FMul(FInt(2), L), FInt(1)))))
             ELSE FInt(0)
        H0 == IF delta = FInt(0) THEN FInt(0)
              ELSE IF r = max THEN FMul(FMod(FDiv(FSub(g, b), delta), 6), FInt(60))
              ELSE IF g = max THEN FMul(FAdd(FInt(2), FDiv(FSub(b, r), delta)), FInt(60))
              ELSE FMul(FAdd(FInt(4), FDiv(FSub(r, g), delta)), FInt(60))
        H == IF FLess(H0, FInt(0)) THEN FAdd(H0, FInt(360)) ELSE H0
    IN  [H |-> H, S |-> S, L |-> L]

hslToRGB(clr, ub) ==
    LET c == FMul(FSub(FInt(1), FAbs(FSub(FMul(FInt(2), clr.L), FInt(1)))), clr.S)
        y == FSub(FMod(FDiv(clr.H, FInt(60)), 2), FInt(1))
        x == FMul(c, FSub(FInt(1), FAbs(y)))
        m == FSub(clr.L, FDiv(c, FInt(2)))
        hi == FMul(FAdd(c, m), FInt(255))
        mid == FMul(FAdd(x, m), FInt(255))
        lo == FMul(m, FInt(255))
        H == clr.H
        rgb == IF FLeq(FInt(0), H) /\ FLeq(H, FInt(60)) THEN <<hi, mid, lo>>
               ELSE IF FLeq(FInt(60), H) /\ FLess(H, FInt(120)) THEN <<mid, hi, lo>>
               ELSE IF FLeq(FInt(120), H) /\ FLess(H, FInt(180)) THEN <<lo, hi, mid>>
               ELSE IF FLeq(FInt(180), H) /\ FLess(H, FInt(240)) THEN <<lo, mid, hi>>
               ELSE IF FLeq(FInt(240), H) /\ FLess(H, FInt(300)) THEN <<mid, lo, hi>>
               ELSE IF FLeq(FInt(300), H) /\ FLess(H, FInt(360)) THEN <<hi, lo, mid>>
               ELSE <<FInt(0), FInt(0), FInt(0)>>
    IN  [R |-> toUint8(rgb[1], ub), G |-> toUint8(rgb[2], ub),
         B |-> toUint8(rgb[3], ub), A |-> 255]

complementary(c, ub) ==
    CHOOSE out \in
      { hslToRGB([hsl EXCEPT !.H = IF FLess(hsl.H, FInt(180))
                                   THEN FAdd(hsl.H, FInt(180))
                                   ELSE FSub(hsl.H, FInt(180))], ub) :
          hsl \in { colorToHSL(c) } } : TRUE

(***************************************************************************)
(* createChecksum is crypto/md5 of the name: an external function, given   *)
(* here by its value on the names the model uses.                          *)
(***************************************************************************)
Names == {"", "simple", "custom"}

createChecksum(name) ==
    CASE name = "simple" ->
           <<141, 189, 218, 72, 251, 135, 72, 214, 116, 111, 25, 101, 130, 78, 150, 106>>
      [] name = "custom" ->
           <<139, 144, 53, 128, 120, 66, 164, 228, 219, 224, 9, 243, 241, 71, 129, 39>>
      [] name = "" ->
           <<212, 29, 140, 217, 143, 0, 178, 4, 233, 128, 9, 152, 236, 248, 66, 126>>

(***************************************************************************)
(* createPatternGrid                                                       *)
(***************************************************************************)
\* chunk := size/2, plus one when size is odd
chunkOf(size) == IF size % 2 = 1 THEN (size \div 2) + 1 ELSE size \div 2

\* one pass of the buffer loop "for !done": append checksum[j]; reset j at
\* the last index; set done when the buffer has the target length; j++
dataStep(checksum, target, st) ==
    IF st.done THEN st
    ELSE [buf |-> Append(st.buf, At0(checksum, st.j)),
          j |-> (IF st.j = Len(checksum) - 1 THEN 0 ELSE st.j) + 1,
          done |-> Len(st.buf) + 1 = target]

\* n passes of the loop (a pass after done changes nothing).  n is halved,
\* and the first half is evaluated to a value before the second starts, to
\* keep the evaluation shallow.
RECURSIVE dataLoop(_, _, _, _)
dataLoop(checksum, target, st, n) ==
    IF n = 0 THEN st
    ELSE IF n = 1 THEN dataStep(checksum, target, st)
    ELSE CHOOSE out \in { dataLoop(checksum, target, half, n - (n \div 2)) :
                            half \in { dataLoop(checksum, target, st, n \div 2) } } : TRUE

\* var data []byte; done := false; j := 0; the loop ends after target passes
buildData(checksum, size) ==
    dataLoop(checksum, chunkOf(size) * size,
             [buf |-> <<>>, j |-> 0, done |-> FALSE], chunkOf(size) * size).buf

\* fillRow with the right half repeating the seed instead of mirroring it
RECURSIVE fillRowRepeat(_, _, _, _)
fillRowRepeat(r, c, j, m) ==
    IF j >= Len(r) THEN r
    ELSE IF j < Len(c)
         THEN fillRowRepeat(Set0(r, j, At0(c, j) % 2 = 0), c, j + 1, m)
         ELSE fillRowRepeat(Set0(r, j, At0(c, m) % 2 = 0), c, j + 1, m + 1)

\* fillRow marking the odd bytes instead of the even ones
RECURSIVE fillRowOdd(_, _, _, _)
fillRowOdd(r, c, j, m) ==
    IF j >= Len(r) THEN r
    ELSE IF j < Len(c)
         THEN fillRowOdd(Set0(r, j, At0(c, j) % 2 = 1), c, j + 1, m)
         ELSE fillRowOdd(Set0(r, Len(r) - 1 - m, At0(c, m) % 2 = 1), c, j + 1, m + 1)

\* the inner loop over one row r with its seed bytes c
RECURSIVE fillRow(_, _, _, _)
fillRow(r, c, j, m) ==
    IF j >= Len(r) THEN r
    ELSE IF j < Len(c)
         THEN fillRow(Set0(r, j, At0(c, j) % 2 = 0), c, j + 1, m)
         ELSE fillRow(Set0(r, Len(r) - 1 - m, At0(c, m) % 2 = 0), c, j + 1, m + 1)

\* the outer loop: row by row, each row a slice of the grid written in place
RECURSIVE fillRows(_, _, _, _)
fillRows(grid, buf, size, row) ==
    IF row >= size THEN grid
    ELSE LET chunk == chunkOf(size)
             r == Slice0(grid, row * size, (row * size) + size)
             c == Slice0(buf, row * chunk, (row * chunk) + chunk)
         IN  fillRows(SubSeq(grid, 1, row * size) \o fillRow(r, c, 0, 0)
                        \o SubSeq(grid, (row * size) + size + 1, Len(grid)),
                      buf, size, row + 1)

createPatternGrid(i) ==
    [i EXCEPT !.grid = fillRows(i.grid, buildData(i.checksum, i.size), i.size, 0)]

(***************************************************************************)
(* The image.  An *image.RGBA is modelled by its bounds and the fills made  *)
(* on it, in the order they were made: draw.Draw with a uniform source and  *)
(* the Src operator sets every pixel of the rectangle to the colour, so a   *)
(* pixel holds the colour of the last fill that covers it, and a pixel no   *)
(* fill covers is the zero colour image.NewRGBA starts from.                *)
(***************************************************************************)
Transparent == RGBA(0, 0, 0, 0)

\* image.Rect: the corners are put in order
Rect(x0, y0, x1, y1) ==
    [x1 |-> IF x0 > x1 THEN x1 ELSE x0, y1 |-> IF y0 > y1 THEN y1 ELSE y0,
     x2 |-> IF x0 > x1 THEN x0 ELSE x1, y2 |-> IF y0 > y1 THEN y0 ELSE y1]

\* Rectangle.Intersect, an empty result kept as a rectangle with no point
Intersect(r, s) ==
    [x1 |-> IF r.x1 < s.x1 THEN s.x1 ELSE r.x1, y1 |-> IF r.y1 < s.y1 THEN s.y1 ELSE r.y1,
     x2 |-> IF r.x2 > s.x2 THEN s.x2 ELSE r.x2, y2 |-> IF r.y2 > s.y2 THEN s.y2 ELSE r.y2]

\* image.Point{x, y}.In(r)
inRect(x, y, r) == r.x1 <= x /\ x < r.x2 /\ r.y1 <= y /\ y < r.y2

\* image.NewRGBA(r)
NewRGBA(r) == [bounds |-> r, fills |-> <<>>]

\* draw.Draw(dst, r, &image.Uniform{c}, image.ZP, draw.Src)
drawDraw(dst, r, c) ==
    [dst EXCEPT !.fills = Append(@, [r |-> Intersect(r, dst.bounds), c |-> c])]

\* img.At(x, y)
imageAt(img, x, y) ==
    LET hits == { k \in DOMAIN img.fills : inRect(x, y, img.fills[k].r) }
    IN  IF ~inRect(x, y, img.bounds) \/ hits = {} THEN Transparent
        ELSE img.fills[CHOOSE k \in hits : \A l \in hits : l <= k].c

(***************************************************************************)
(* drawPattern                                                             *)
(***************************************************************************)
\* offsetOf with the whole remainder put before the grid
offsetWhole(pixels, size) == pixels % size

\* offsetOf of a renderer that does not centre the grid
offsetNone(pixels, size) == 0

\* offset := (pixels % size) / 2
offsetOf(pixels, size) == (pixels % size) \div 2

\* length := pixels / size
lengthOf(pixels, size) == pixels \div size

\* the rectangle of cell j: x1, y1, x2, y2 and image.Rect
blockRect(pixels, size, j) ==
    LET x1 == ((j % size) * lengthOf(pixels, size)) + offsetOf(pixels, size)
        y1 == ((j \div size) * lengthOf(pixels, size)) + offsetOf(pixels, size)
    IN  Rect(x1, y1, x1 + lengthOf(pixels, size), y1 + lengthOf(pixels, size))

\* the body of the loop for cell j
drawBlock(base, pixels, size, foreground, grid, j) ==
    IF At0(grid, j) THEN drawDraw(base, blockRect(pixels, size, j), foreground)
    ELSE base

\* the loop for j := lo; j < hi; j++, the range halved and the first half
\* evaluated to a value before the second starts
RECURSIVE drawLoop(_, _, _, _, _, _, _)
drawLoop(base, pixels, size, foreground, grid, lo, hi) ==
    IF hi <= lo THEN base
    ELSE IF hi = lo + 1 THEN drawBlock(base, pixels, size, foreground, grid, lo)
    ELSE CHOOSE out \in
           { drawLoop(half, pixels, size, foreground, grid, lo + ((hi - lo) \div 2), hi) :
               half \in { drawLoop(base, pixels, size, foreground, grid,
                                   lo, lo + ((hi - lo) \div 2)) } } : TRUE

drawPattern(pixels, size, foreground, background, grid) ==
    drawLoop(drawDraw(NewRGBA(Rect(0, 0, pixels, pixels)),
                      Rect(0, 0, pixels, pixels), background),
             pixels, size, foreground, grid, 0, Len(grid))

(***************************************************************************)
(* The Icon.  NoIcon is the nil *Icon, NoImage the nil image.Image.        *)
(***************************************************************************)
NoIcon == [nil |-> TRUE]
NoImage == [nil |-> TRUE]
NoCall == [op |-> "none"]
NoRun == [digested |-> FALSE, applied |-> <<>>, gridded |-> FALSE, drawn |-> FALSE]
NoFiles == [f \in {} |-> <<>>]
NoProbe == [nil |-> TRUE]
NoConv == [pc |-> "idle"]

\* make([]bool, n)
makeBools(n) == [k \in 1..n |-> FALSE]

(***************************************************************************)
(* Errors.  An error is the text of its message as a sequence of lines     *)
(* (the message split at its newlines); the nil error is the empty         *)
(* sequence.                                                               *)
(***************************************************************************)
NoErr == <<>>
Errorf(line) == <<line>>

(***************************************************************************)
(* The options.  An Option is a closure over its argument; it is modelled  *)
(* by its constructor and argument, and applied by applyOption.            *)
(***************************************************************************)
WithPixels(p) == [kind |-> "WithPixels", p |-> p]
WithSize(s) == [kind |-> "WithSize", s |-> s]
WithBackgroundColor(c) == [kind |-> "WithBackgroundColor", c |-> c]
WithForegroundColor(c) == [kind |-> "WithForegroundColor", c |-> c]
WithComplementaryBackground == [kind |-> "WithComplementaryBackground"]

\* withPixels rejecting the lower limit itself
withPixelsStrict(p, i) ==
    IF p <= MinPixels
    THEN [i |-> i,
          err |-> Errorf("pixel length needs to be greater than " \o ToString(MinPixels))]
    ELSE IF p > MaxPixels
    THEN [i |-> i, err |-> Errorf("pixel length needs to be less than " \o ToString(MaxPixels))]
    ELSE [i |-> [i EXCEPT !.pixels = p], err |-> NoErr]

\* the closure WithPixels(p) returns, applied to i
withPixels(p, i) ==
    IF p < MinPixels
    THEN [i |-> i,
          err |-> Errorf("pixel length needs to be greater than " \o ToString(MinPixels))]
    ELSE IF p > MaxPixels
    THEN [i |-> i, err |-> Errorf("pixel length needs to be less than " \o ToString(MaxPixels))]
    ELSE [i |-> [i EXCEPT !.pixels = p], err |-> NoErr]

\* the closure WithSize(s) returns, applied to i
withSize(s, i) ==
    IF s < MinSize
    THEN [i |-> i, err |-> Errorf("grid size can not be less than " \o ToString(MinSize))]
    ELSE IF s > MaxSize
    THEN [i |-> i, err |-> Errorf("grid size can not exceed max of " \o ToString(MaxSize))]
    ELSE [i |-> [i EXCEPT !.size = s], err |-> NoErr]

withBackgroundColor(c, i) ==
    IF c = NilColor
    THEN [i |-> i,
          err |-> Errorf("can not set background to nil color, please provide a valid color")]
    ELSE [i |-> [i EXCEPT !.background = c], err |-> NoErr]

withForegroundColor(c, i) ==
    IF c = NilColor
    THEN [i |-> i,
          err |-> Errorf("can not set foreground color to nil, please provide a valid color")]
    ELSE [i |-> [i EXCEPT !.foreground = c], err |-> NoErr]

withComplementaryBackground(i, ub) ==
    [i |-> [i EXCEPT !.background = complementary(i.foreground, ub)], err |-> NoErr]

\* err := option(i)
applyOption(option, i, ub) ==
    CASE option.kind = "WithPixels" -> withPixels(option.p, i)
      [] option.kind = "WithSize" -> withSize(option.s, i)
      [] option.kind = "WithBackgroundColor" -> withBackgroundColor(option.c, i)
      [] option.kind = "WithForegroundColor" -> withForegroundColor(option.c, i)
      [] option.kind = "WithComplementaryBackground" -> withComplementaryBackground(i, ub)

(***************************************************************************)
(* New                                                                     *)
(***************************************************************************)
\* i := &Icon{...}; i.checksum = createChecksum(i.file); i.foreground = ...
newIcon(name) ==
    LET checksum == createChecksum(name)
    IN  [size |-> defaultSize, pixels |-> defaultPixels, file |-> name,
         checksum |-> checksum, grid |-> <<>>, img |-> NoImage,
         foreground |-> RGBA(At0(checksum, 0), At0(checksum, 1), At0(checksum, 2), 255),
         background |-> White]

\* the option loop giving up at the first option that fails
RECURSIVE applyOptionsUntilError(_, _, _, _)
applyOptionsUntilError(options, k, st, ub) ==
    IF k > Len(options) \/ Len(st.errors) > 0 THEN st
    ELSE CHOOSE out \in
           { applyOptionsUntilError(options, k + 1,
                 [i |-> r.i,
                  errors |-> IF r.err # NoErr THEN st.errors \o r.err ELSE st.errors,
                  applied |-> Append(st.applied, options[k])], ub) :
               r \in { applyOption(options[k], st.i, ub) } } : TRUE

\* for _, option := range options { err := option(i); if err != nil { append } }
\* from the k-th option on; applied lists the options called
RECURSIVE applyOptions(_, _, _, _)
applyOptions(options, k, st, ub) ==
    IF k > Len(options) THEN st
    ELSE CHOOSE out \in
           { applyOptions(options, k + 1,
                 [i |-> r.i,
                  errors |-> IF r.err # NoErr THEN st.errors \o r.err ELSE st.errors,
                  applied |-> Append(st.applied, options[k])], ub) :
               r \in { applyOption(options[k], st.i, ub) } } : TRUE

\* i.img = drawPattern(i.pixels, i.size, i.foreground, i.background, i.grid);
\* return i, nil
render(i, applied) ==
    [icon |-> [i EXCEPT !.img = drawPattern(i.pixels, i.size, i.foreground,
                                            i.background, i.grid)],
     err |-> NoErr,
     ran |-> [digested |-> TRUE, applied |-> applied, gridded |-> TRUE, drawn |-> TRUE]]

\* New after the option loop: the error of the failed options, or the grid
\* and the image
finish(st) ==
    IF Len(st.errors) > 0
    THEN [icon |-> NoIcon,
          err |-> <<"Config error: ", "Option errors:">> \o st.errors,
          ran |-> [digested |-> TRUE, applied |-> st.applied,
                   gridded |-> FALSE, drawn |-> FALSE]]
    ELSE render(createPatternGrid([st.i EXCEPT !.grid = makeBools(st.i.size * st.i.size)]),
                st.applied)

\* New after the name check: the result, and in ran the steps that ran
construct(name, options, ub) ==
    finish(applyOptions(options, 1,
                        [i |-> newIcon(name), errors |-> <<>>, applied |-> <<>>], ub))

\* New with the name checked after the icon is built
NewCheckingNameLast(name, options, ub) ==
    IF name = ""
    THEN [icon |-> NoIcon, err |-> Errorf("invalid icon name entered: " \o name),
          ran |-> construct(name, options, ub).ran]
    ELSE construct(name, options, ub)

New(name, options, ub) ==
    IF name = ""
    THEN [icon |-> NoIcon, err |-> Errorf("invalid icon name entered: " \o name),
          ran |-> NoRun]
    ELSE construct(name, options, ub)

(***************************************************************************)
(* pattern, Pattern, String                                                *)
(***************************************************************************)
\* the text pattern builds, as the sequence of the pieces it appends:
\* for g in [lo, hi): "\n" when g%size == 0, then "*" or "."
RECURSIVE patternLoop(_, _, _, _)
patternLoop(grid, size, lo, hi) ==
    IF hi <= lo THEN <<>>
    ELSE IF hi = lo + 1
    THEN (IF lo % size = 0 THEN <<"\n">> ELSE <<>>)
           \o (IF At0(grid, lo) THEN <<"*">> ELSE <<".">>)
    ELSE patternLoop(grid, size, lo, lo + ((hi - lo) \div 2))
           \o patternLoop(grid, size, lo + ((hi - lo) \div 2), hi)

pattern(grid, size) == <<"Pattern:">> \o patternLoop(grid, size, 0, Len(grid))

\* the values String formats, in the order of its format string
String(i) ==
    [file |-> i.file, pixels |-> <<i.pixels, i.pixels>>, blocks |-> <<i.size, i.size>>,
     foreground |-> i.foreground, background |-> i.background,
     pattern |-> pattern(i.grid, i.size)]

(***************************************************************************)
(* saveFile.  files maps the name of each file that exists to what has     *)
(* been written to it, a sequence of encodings [format, img]; env says     *)
(* which of os.Create, jpeg.Encode and png.Encode succeed in this call.    *)
(* The result has the files after the call, the number of file handles the *)
(* call has opened and not closed, and the error returned.                 *)
(***************************************************************************)
Envs == [create : BOOLEAN, jpeg : BOOLEAN, png : BOOLEAN]

\* os.Create(name): the file is created, or truncated when it exists
osCreate(files, name) ==
    [f \in DOMAIN files \cup {name} |-> IF f = name THEN <<>> ELSE files[f]]

\* an encoder writing the whole encoding of img to the file
encodeTo(files, name, format, img) ==
    [files EXCEPT ![name] = Append(@, [format |-> format, img |-> img])]

saveFile(files, img, name, jpg, env) ==
    IF ~env.create
    THEN [fs |-> files, opened |-> 0, err |-> Errorf("unable to create file " \o name)]
    ELSE IF jpg /\ ~env.jpeg
    THEN [fs |-> osCreate(files, name), opened |-> 1,
          err |-> Errorf("issue saving jpeg " \o "encode error")]
    ELSE LET created == osCreate(files, name)
             afterJpeg == IF jpg THEN encodeTo(created, name, "jpeg", img) ELSE created
         IN  IF ~env.png
             THEN [fs |-> afterJpeg, opened |-> 1,
                   err |-> Errorf("issue saving png " \o "encode error")]
             ELSE [fs |-> encodeTo(afterJpeg, name, "png", img), opened |-> 1,
                   err |-> NoErr]

(***************************************************************************)
(* SpecGrid: createPatternGrid as a function of the digest and the size.   *)
(* The icon is as New has built it when it calls createPatternGrid: the    *)
(* digest, a validated size and a grid of size*size false cells.  data is  *)
(* the function's working buffer.                                          *)
(***************************************************************************)
GridDigests ==
    { createChecksum("simple"), createChecksum("custom"),
      [k \in 1..16 |-> k - 1],
      [k \in 1..16 |-> 0],
      [k \in 1..16 |-> IF k % 2 = 1 THEN 255 ELSE 128] }

gridInput(cs, n) ==
    [size |-> n, pixels |-> defaultPixels, file |-> "simple", checksum |-> cs,
     grid |-> makeBools(n * n), img |-> NoImage,
     foreground |-> RGBA(cs[1], cs[2], cs[3], 255), background |-> White]

InitGrid ==
    /\ icon \in { gridInput(cs, n) : cs \in GridDigests, n \in MinSize..MaxSize }
    /\ data = <<>>
    /\ ret = NoCall
    /\ ran = NoRun
    /\ fs = NoFiles
    /\ handles = 0
    /\ probe = NoProbe
    /\ conv = NoConv

CreatePatternGrid ==
    /\ data = <<>>
    /\ icon' = createPatternGrid(icon)
    /\ data' = buildData(icon.checksum, icon.size)
    /\ UNCHANGED <<ret, ran, fs, handles, probe, conv>>

NextGrid == CreatePatternGrid

SpecGrid == InitGrid /\ [][NextGrid]_vars

gridDone == icon # NoIcon /\ data # <<>>

\* C1: the grid createPatternGrid produces is horizontally mirrored: in
\* every row, column c and column n-1-c hold the same value, for odd and
\* even n.
C1_Mirrored ==
    gridDone =>
        \A row \in 0..(icon.size - 1) : \A c \in 0..(icon.size - 1) :
            At0(icon.grid, (row * icon.size) + c)
              = At0(icon.grid, (row * icon.size) + (icon.size - 1 - c))

\* a computed grid of even size whose first row mixes painted and blank cells
C1_Witness ==
    /\ gridDone
    /\ icon.size = 6
    /\ \E c1, c2 \in 0..5 : At0(icon.grid, c1) /\ ~At0(icon.grid, c2)

\* C2: the working buffer has exactly ceil(n/2)*n bytes and is the digest
\* read cyclically: data[k] = digest[k mod 16] for every k.
C2_CyclicBuffer ==
    gridDone =>
        /\ Len(data) = ((icon.size + 1) \div 2) * icon.size
        /\ \A k \in 0..(Len(data) - 1) :
              At0(data, k) = At0(icon.checksum, k % Len(icon.checksum))

flipLSB(b) == IF b % 2 = 0 THEN b + 1 ELSE b - 1

\* C3: a cell of the left half (centre included) is true iff its seed byte
\* data[r*chunk + j] is even, and flipping the least-significant bit of
\* that byte flips exactly the cell and its mirror cell.
C3_Parity ==
    gridDone =>
        LET n == icon.size
            chunk == (n + 1) \div 2
        IN  /\ \A r \in 0..(n - 1) : \A j \in 0..(chunk - 1) :
                  At0(icon.grid, (r * n) + j) <=> (At0(data, (r * chunk) + j) % 2 = 0)
            /\ \A k \in 0..(Len(data) - 1) :
                  \A g2 \in { fillRows(makeBools(n * n),
                                        Set0(data, k, flipLSB(At0(data, k))), n, 0) } :
                      \A cell \in 0..((n * n) - 1) :
                          (At0(g2, cell) # At0(icon.grid, cell))
                            <=> \/ cell = ((k \div chunk) * n) + (k % chunk)
                                \/ cell = ((k \div chunk) * n) + (n - 1 - (k % chunk))

\* a computed grid of odd size: the seed byte of the centre column of row 1
\* is odd and its cell blank, the seed byte of column 0 is even and painted
C3_Witness ==
    /\ gridDone
    /\ icon.size = 7
    /\ At0(data, 4 + 3) % 2 = 1 /\ ~At0(icon.grid, 7 + 3)
    /\ At0(data, 4) % 2 = 0 /\ At0(icon.grid, 7)

(***************************************************************************)
(* SpecColor: the conversion of a colour to HSL and back.                  *)
(***************************************************************************)
ChannelSamples == {0, 1, 16, 21, 122, 127, 128, 200, 252, 254, 255}

InitColor ==
    /\ conv \in { [pc |-> "rgb", c |-> RGBA(r, g, b, 255)] :
                    r \in ChannelSamples, g \in ChannelSamples, b \in ChannelSamples }
    /\ icon = NoIcon
    /\ data = <<>>
    /\ ret = NoCall
    /\ ran = NoRun
    /\ fs = NoFiles
    /\ handles = 0
    /\ probe = NoProbe

ColorToHSL ==
    /\ conv.pc = "rgb"
    /\ conv' = [pc |-> "hsl", c |-> conv.c, hsl |-> colorToHSL(conv.c)]
    /\ UNCHANGED <<icon, data, ret, ran, fs, handles, probe>>

HslToRGB ==
    /\ conv.pc = "hsl"
    /\ \E ub \in Conversions :
          conv' = [pc |-> "done", c |-> conv.c, hsl |-> conv.hsl,
                   out |-> hslToRGB(conv.hsl, ub)]
    /\ UNCHANGED <<icon, data, ret, ran, fs, handles, probe>>

NextColor == ColorToHSL \/ HslToRGB

SpecColor == InitColor /\ [][NextColor]_vars

\* C9: for every opaque colour c, hslToRGB(colorToHSL(c)) is within 1 of c on
\* each of R, G and B, with alpha 255.
C9_RoundTrip ==
    conv.pc = "done" =>
        /\ Abs(conv.out.R - conv.c.R) <= 1
        /\ Abs(conv.out.G - conv.c.G) <= 1
        /\ Abs(conv.out.B - conv.c.B) <= 1
        /\ conv.out.A = 255

\* the round trip is within 1 whenever no channel of c is 255
C9_RoundTripBelow255 ==
    (conv.pc = "done" /\ conv.c.R # 255 /\ conv.c.G # 255 /\ conv.c.B # 255) =>
        /\ Abs(conv.out.R - conv.c.R) <= 1
        /\ Abs(conv.out.G - conv.c.G) <= 1
        /\ Abs(conv.out.B - conv.c.B) <= 1
        /\ conv.out.A = 255

(***************************************************************************)
(* SpecDraw: drawPattern as a function of the pixel size, the grid size,   *)
(* the colours and the grid, and the reading of a pixel of its result.     *)
(* Every pixel size 100..500 is drawn with every grid size 5..20; every    *)
(* pixel is read of the canvases of ProbeCases.                            *)
(***************************************************************************)
drawGrids ==
    { createPatternGrid(gridInput(createChecksum("simple"), n)) : n \in MinSize..MaxSize }

ProbeCases ==
    { <<250, 5>>, <<300, 7>>, <<100, 6>>, <<101, 5>>, <<100, 20>>, <<117, 20>> }

InitDraw ==
    /\ icon \in { [g EXCEPT !.pixels = p] : g \in drawGrids, p \in MinPixels..MaxPixels }
                \cup { [g EXCEPT !.pixels = p, !.foreground = c, !.background = c] :
                         g \in { h \in drawGrids : h.size = 5 }, p \in {MinPixels},
                         c \in {White} }
    /\ data = <<>>
    /\ ret = NoCall
    /\ ran = NoRun
    /\ fs = NoFiles
    /\ handles = 0
    /\ probe = NoProbe
    /\ conv = NoConv

DrawPattern ==
    /\ icon.img = NoImage
    /\ icon' = [icon EXCEPT !.img = drawPattern(icon.pixels, icon.size, icon.foreground,
                                                icon.background, icon.grid)]
    /\ UNCHANGED <<data, ret, ran, fs, handles, probe, conv>>

\* one read img.At(x, y) of a pixel of the canvas
ProbePixel ==
    /\ icon.img # NoImage
    /\ probe = NoProbe
    /\ <<icon.pixels, icon.size>> \in ProbeCases \/ icon.foreground = icon.background
    /\ \E x \in 0..(icon.pixels - 1) : \E y \in 0..(icon.pixels - 1) :
          probe' = [x |-> x, y |-> y, c |-> imageAt(icon.img, x, y)]
    /\ UNCHANGED <<icon, data, ret, ran, fs, handles, conv>>

NextDraw == DrawPattern \/ ProbePixel

SpecDraw == InitDraw /\ [][NextDraw]_vars

\* pixel (x, y) lies in the block of a true cell, by the claim's own layout:
\* blockLen = p / n, offset = (p mod n) / 2
coveredByTrueCell(x, y) ==
    LET n == icon.size
        blockLen == icon.pixels \div n
        offset == (icon.pixels % n) \div 2
    IN  \E row \in 0..(n - 1) : \E col \in 0..(n - 1) :
            /\ At0(icon.grid, (row * n) + col)
            /\ (col * blockLen) + offset <= x /\ x < (col * blockLen) + offset + blockLen
            /\ (row * blockLen) + offset <= y /\ y < (row * blockLen) + offset + blockLen

\* C7 as stated: pixel (x, y) of the raster has the foreground colour if and
\* only if it lies in the block of a true cell, and the background colour
\* otherwise.
C7_ForegroundIffCovered ==
    probe # NoProbe =>
        /\ (probe.c = icon.foreground) <=> coveredByTrueCell(probe.x, probe.y)
        /\ ~coveredByTrueCell(probe.x, probe.y) => probe.c = icon.background

\* C7 amended: pixel (x, y) has the foreground colour if it lies in the block
\* of a true cell and the background colour otherwise; when the two colours
\* differ, it has the foreground colour if and only if it lies in such a block.
C7_PixelColour ==
    probe # NoProbe =>
        /\ coveredByTrueCell(probe.x, probe.y) => probe.c = icon.foreground
        /\ ~coveredByTrueCell(probe.x, probe.y) => probe.c = icon.background
        /\ icon.foreground # icon.background =>
              ((probe.c = icon.foreground) <=> coveredByTrueCell(probe.x, probe.y))

\* the 300-pixel canvas of a 7 x 7 grid: the first pixel of the block of a
\* true cell, 3 pixels in from the cell's grid origin, is read as foreground,
\* and the pixel left of it as background
C7_Witness ==
    /\ probe # NoProbe
    /\ icon.pixels = 300 /\ icon.size = 7
    /\ icon.foreground # icon.background
    /\ \E row \in 0..6 : \E col \in 0..6 :
          /\ At0(icon.grid, (row * 7) + col)
          /\ probe.x = (col * 42) + 3 /\ probe.y = (row * 42) + 3
          /\ probe.c = icon.foreground
          /\ imageAt(icon.img, probe.x - 1, probe.y) = icon.background

drawn == icon # NoIcon /\ icon.img # NoImage

\* the margins the block grid leaves in the canvas: from the canvas edge to
\* the first column (row) of blocks, and from the last column (row) to the
\* opposite edge
marginBefore == blockRect(icon.pixels, icon.size, 0).x1
marginAfter == icon.pixels - blockRect(icon.pixels, icon.size, icon.size - 1).x2
marginAbove == blockRect(icon.pixels, icon.size, 0).y1
marginBelow ==
    icon.pixels - blockRect(icon.pixels, icon.size, (icon.size * icon.size) - 1).y2

\* C8 as stated: the offset centres the block grid and leaves a uniform
\* border: the margin before the grid equals the margin after it,
\* horizontally and vertically.
C8_UniformBorder ==
    drawn =>
        /\ marginBefore = (icon.pixels % icon.size) \div 2
        /\ marginBefore = marginAfter
        /\ marginAbove = marginBelow

\* C8 amended: the margin before the grid is (p mod n) / 2, and the margin
\* after it is equal to it when p mod n is even and one pixel larger when
\* p mod n is odd, horizontally and vertically.
C8_BorderWithinOne ==
    drawn =>
        /\ marginBefore = (icon.pixels % icon.size) \div 2
        /\ marginAbove = marginBefore
        /\ marginAfter = icon.pixels - marginBefore - (icon.size * (icon.pixels \div icon.size))
        /\ marginBelow = marginAfter
        /\ marginAfter - marginBefore = (icon.pixels % icon.size) % 2

\* a drawn canvas whose remainder is odd (101 = 5 * 20 + 1) and whose grid
\* paints the first and the last column of a row: the first block starts at
\* the canvas edge, the last ends one pixel before the opposite edge
C8_Witness ==
    /\ drawn
    /\ icon.pixels = 101 /\ icon.size = 5
    /\ \E k \in DOMAIN icon.img.fills : k > 1 /\ icon.img.fills[k].r.x1 = 0
    /\ \E k \in DOMAIN icon.img.fills : k > 1 /\ icon.img.fills[k].r.x2 = 100
    /\ \A k \in DOMAIN icon.img.fills : k > 1 => icon.img.fills[k].r.x2 <= 100

(***************************************************************************)
(* SpecOption: one option applied to an icon, as the option loop of New    *)
(* does on the icon it has just built (err := option(i)).  ret keeps the   *)
(* option, the error it returned and the pixels and size before the call.  *)
(***************************************************************************)
\* how far beyond the accepted ranges the option arguments reach
ArgMargin == 5

RangeOptions ==
    { WithPixels(p) : p \in (MinPixels - ArgMargin)..(MaxPixels + ArgMargin) }
      \cup { WithSize(s) : s \in (MinSize - ArgMargin)..(MaxSize + ArgMargin) }

InitOption ==
    /\ icon \in { newIcon("simple"),
                  [newIcon("custom") EXCEPT !.size = MaxSize, !.pixels = MaxPixels] }
    /\ ret = NoCall
    /\ ran = NoRun
    /\ data = <<>>
    /\ fs = NoFiles
    /\ handles = 0
    /\ probe = NoProbe
    /\ conv = NoConv

\* err := option(i) for an option of the set options
ApplyOption(options) ==
    /\ icon # NoIcon
    /\ \E option \in options : \E ub \in Conversions :
          \E r \in { applyOption(option, icon, ub) } :
              /\ icon' = r.i
              /\ ret' = [op |-> "Option", option |-> option, err |-> r.err,
                         before |-> [size |-> icon.size, pixels |-> icon.pixels]]
    /\ ran' = NoRun
    /\ UNCHANGED <<data, fs, handles, probe, conv>>

NextOption == ret = NoCall /\ ApplyOption(RangeOptions)

SpecOption == InitOption /\ [][NextOption]_vars

\* C5: WithPixels(p) is accepted iff 100 <= p <= 500 and WithSize(s) iff
\* 5 <= s <= 20; a rejected option returns an error and leaves the icon's
\* pixels and size unchanged (an accepted one sets the field it names).
C5_OptionRanges ==
    ret.op = "Option" =>
        /\ ret.option.kind = "WithPixels" =>
              /\ (ret.err = NoErr) <=> (100 <= ret.option.p /\ ret.option.p <= 500)
              /\ ret.err = NoErr => icon.pixels = ret.option.p /\ icon.size = ret.before.size
        /\ ret.option.kind = "WithSize" =>
              /\ (ret.err = NoErr) <=> (5 <= ret.option.s /\ ret.option.s <= 20)
              /\ ret.err = NoErr => icon.size = ret.option.s /\ icon.pixels = ret.before.pixels
        /\ (ret.option.kind \in {"WithPixels", "WithSize"} /\ ret.err # NoErr) =>
              /\ Len(ret.err) = 1
              /\ icon.pixels = ret.before.pixels
              /\ icon.size = ret.before.size

\* WithPixels(99) has been rejected on an icon of 250 pixels, which it keeps
C5_Witness ==
    /\ ret.op = "Option"
    /\ ret.option = WithPixels(99)
    /\ ret.err = <<"pixel length needs to be greater than 100">>
    /\ icon.pixels = 250 /\ icon.size = 5

(***************************************************************************)
(* Spec: the life of one icon.  New is called once, with a name and a list *)
(* of options; the public operations then act on the icon it returned.     *)
(* ret is the last call and what it returned, ran the steps the last call  *)
(* of New went through.                                                    *)
(***************************************************************************)
\* the longest option list passed to New
MaxOpts == 2
\* the most file handles left open
MaxHandles == 2

\* fg of example.go
Custom == RGBA(122, 16, 21, 255)

NewOptions ==
    { WithPixels(99), WithPixels(100), WithSize(4), WithSize(6),
      WithBackgroundColor(NilColor), WithBackgroundColor(Black),
      WithForegroundColor(NilColor), WithForegroundColor(Custom),
      WithComplementaryBackground }

OptionLists == UNION { [1..k -> NewOptions] : k \in 0..MaxOpts }

\* the options applied to the icon New has returned
PostOptions == { WithSize(6), WithSize(21), WithPixels(100) }

Init ==
    /\ icon = NoIcon
    /\ ret = NoCall
    /\ ran = NoRun
    /\ data = <<>>
    /\ fs = NoFiles
    /\ handles = 0
    /\ probe = NoProbe
    /\ conv = NoConv

NewCall ==
    /\ ret = NoCall
    /\ \E name \in Names : \E options \in OptionLists : \E ub \in Conversions :
          \E r \in { New(name, options, ub) } :
              /\ icon' = r.icon
              /\ ret' = [op |-> "New", name |-> name, options |-> options, err |-> r.err]
              /\ ran' = r.ran
    /\ UNCHANGED <<data, fs, handles, probe, conv>>

PatternCall ==
    /\ icon # NoIcon
    /\ ret' = [op |-> "Pattern", out |-> pattern(icon.grid, icon.size)]
    /\ ran' = NoRun
    /\ UNCHANGED <<icon, data, fs, handles, probe, conv>>

StringCall ==
    /\ icon # NoIcon
    /\ ret' = [op |-> "String", out |-> String(icon)]
    /\ ran' = NoRun
    /\ UNCHANGED <<icon, data, fs, handles, probe, conv>>

\* SavePNG (jpg false) and SaveJPG (jpg true); ret keeps the outcome of
\* os.Create and of the encoders in the call
Save(op, ext, jpg) ==
    /\ icon # NoIcon
    /\ handles < MaxHandles
    /\ \E env \in Envs :
          \E r \in { saveFile(fs, icon.img, icon.file \o ext, jpg, env) } :
              /\ fs' = r.fs
              /\ handles' = handles + r.opened
              /\ ret' = [op |-> op, err |-> r.err, env |-> env]
    /\ ran' = NoRun
    /\ UNCHANGED <<icon, data, probe, conv>>

SavePNG == Save("SavePNG", ".png", FALSE)

SaveJPG == Save("SaveJPG", ".jpeg", TRUE)

Next ==
    \/ NewCall
    \/ PatternCall
    \/ StringCall
    \/ SavePNG
    \/ SaveJPG
    \/ ApplyOption(PostOptions)

Spec == Init /\ [][Next]_vars

\* what the source makes an option return: whether it fails, and its message
optionFails(option) ==
    \/ option.kind = "WithPixels" /\ (option.p < 100 \/ option.p > 500)
    \/ option.kind = "WithSize" /\ (option.s < 5 \/ option.s > 20)
    \/ option.kind \in {"WithBackgroundColor", "WithForegroundColor"} /\ option.c = NilColor

optionMessage(option) ==
    IF option.kind = "WithPixels"
    THEN (IF option.p < 100 THEN "pixel length needs to be greater than 100"
          ELSE "pixel length needs to be less than 500")
    ELSE IF option.kind = "WithSize"
    THEN (IF option.s < 5 THEN "grid size can not be less than 5"
          ELSE "grid size can not exceed max of 20")
    ELSE IF option.kind = "WithBackgroundColor"
    THEN "can not set background to nil color, please provide a valid color"
    ELSE "can not set foreground color to nil, please provide a valid color"

failedMessages(options) ==
    LET failed == SelectSeq(options, optionFails)
    IN  [k \in 1..Len(failed) |-> optionMessage(failed[k])]

\* C4: for a non-empty name New applies every option of the list, also after
\* one has failed; if an option failed New returns no icon and one error
\* holding the message of every failed option in the order of application,
\* and neither the grid nor the image is computed.
C4_AllOptionsApplied ==
    (ret.op = "New" /\ ret.name # "") =>
        /\ ran.applied = ret.options
        /\ (\E k \in DOMAIN ret.options : optionFails(ret.options[k])) =>
              /\ icon = NoIcon
              /\ ret.err = <<"Config error: ", "Option errors:">>
                             \o failedMessages(ret.options)
              /\ ~ran.gridded
              /\ ~ran.drawn
        /\ (\A k \in DOMAIN ret.options : ~optionFails(ret.options[k])) =>
              /\ icon # NoIcon
              /\ ret.err = NoErr

\* New("simple", WithPixels(99), WithSize(4)) has applied both options and
\* returned no icon and the two messages in that order
C4_Witness ==
    /\ ret.op = "New"
    /\ ret.name = "simple"
    /\ ret.options = <<WithPixels(99), WithSize(4)>>
    /\ ran.applied = <<WithPixels(99), WithSize(4)>>
    /\ icon = NoIcon
    /\ ret.err = <<"Config error: ", "Option errors:",
                   "pixel length needs to be greater than 100",
                   "grid size can not be less than 5">>

\* C6: New with the empty name fails and returns no icon whatever the
\* options, before any option is applied and before the digest, the grid or
\* the image is computed.
C6_EmptyNameFailsFirst ==
    (ret.op = "New" /\ ret.name = "") =>
        /\ icon = NoIcon
        /\ ret.err = <<"invalid icon name entered: ">>
        /\ ~ran.digested
        /\ ran.applied = <<>>
        /\ ~ran.gridded
        /\ ~ran.drawn

\* New("", WithPixels(100), WithSize(6)), two valid options, has failed
C6_Witness ==
    /\ ret.op = "New"
    /\ ret.name = ""
    /\ ret.options = <<WithPixels(100), WithSize(6)>>
    /\ icon = NoIcon
    /\ ret.err # NoErr
    /\ ran = NoRun

\* C10: SavePNG writes exactly one PNG encoding of the image to name.png and
\* SaveJPG exactly one JPEG encoding of the image to name.jpeg, and each
\* returns an error only when its own file cannot be created or the encoder
\* of its own format fails.
C10_OneEncodingPerSave ==
    /\ ret.op = "SavePNG" =>
          /\ ret.err = NoErr =>
                /\ (icon.file \o ".png") \in DOMAIN fs
                /\ fs[icon.file \o ".png"] = <<[format |-> "png", img |-> icon.img]>>
          /\ ret.err # NoErr => (~ret.env.create \/ ~ret.env.png)
    /\ ret.op = "SaveJPG" =>
          /\ ret.err = NoErr =>
                /\ (icon.file \o ".jpeg") \in DOMAIN fs
                /\ fs[icon.file \o ".jpeg"] = <<[format |-> "jpeg", img |-> icon.img]>>
          /\ ret.err # NoErr => (~ret.env.create \/ ~ret.env.jpeg)

\* C11: after a successful New whose options include
\* WithComplementaryBackground with no WithBackgroundColor after it, the
\* icon's background is the complementary colour of the icon's foreground,
\* wherever WithComplementaryBackground stands relative to WithForegroundColor.
C11_BackgroundComplementsForeground ==
    (/\ ret.op = "New"
     /\ ret.err = NoErr
     /\ \E k \in DOMAIN ret.options :
           /\ ret.options[k].kind = "WithComplementaryBackground"
           /\ \A l \in DOMAIN ret.options :
                 l > k => ret.options[l].kind # "WithBackgroundColor")
      => \E ub \in Conversions : icon.background = complementary(icon.foreground, ub)

\* C12: a call of saveFile that has opened the file closes it before it
\* returns, on every exit path: no file handle is open after SavePNG or
\* SaveJPG has returned.
C12_NoHandleLeftOpen ==
    ret.op \in {"SavePNG", "SaveJPG"} => handles = 0

\* C13: after a successful New no public operation on the icon changes its
\* size, pixels, colours, grid or image: in every state the grid has
\* size*size cells and the image is the rendering of the icon's size, pixels,
\* colours and grid.
C13_IconStaysRendered ==
    icon # NoIcon =>
        /\ Len(icon.grid) = icon.size * icon.size
        /\ icon.img = drawPattern(icon.pixels, icon.size, icon.foreground,
                                  icon.background, icon.grid)

====
